---- MODULE Spec2Model ----
(***************************************************************************)
(* Turn-order schedulers of pettingzoo/utils/agent_selector.py:            *)
(* AgentSelector (fixed round robin), AgentSelector2 (manager-preemptible  *)
(* cycle) and AgentSelector3 (dynamic active-set cycle).                   *)
(*                                                                         *)
(* One selector object is constructed (its class is cls) and then driven   *)
(* by an arbitrary sequence of reinit / reset / next calls.  A call that   *)
(* raises leaves the fields assigned before the raising statement and      *)
(* records the exception in raised; nothing in the repository catches it,  *)
(* so the run ends there.                                                  *)
(*                                                                         *)
(* Lists are TLA+ sequences; the indices stored in the object's fields are *)
(* 0-based as in the source and are converted by At.                       *)
(***************************************************************************)
EXTENDS Integers, Sequences, FiniteSets, TLC

VARIABLES
    cls,                \* class of the constructed object
    agent_order,        \* self.agent_order
    _current_agent,     \* self._current_agent            (AgentSelector)
    selected_agent,     \* self.selected_agent
    manager_index,      \* self.manager_index             (AgentSelector2/3)
    workstation_indices,\* self.workstation_indices       (AgentSelector2/3)
    coordination_index, \* self.coordination_index        (AgentSelector2/3)
    _current_index,     \* self._current_index            (AgentSelector2/3)
    _previous_agents_in_cycle_indices,  \* (AgentSelector3)
    op,                 \* the method called last
    ret,                \* what that call returned
    raised,             \* the exception that call raised, or None
    path,               \* the branch the last next() took
    prev_path,          \* path before the last call
    calls,              \* AgentSelector, AgentSelector2: length of the current run of cycle-path next() calls
    idle,               \* AgentSelector3: fallback calls since the manager was selected
    origin,             \* what set the object up last: __init__ or reinit
    other,              \* fields of a second object: constructed over the same order
                        \* when this one is constructed or reinitialized, and
                        \* given the same calls since
    other_ret           \* what the last call on the second object returned

vars == <<cls, agent_order, _current_agent, selected_agent, manager_index,
          workstation_indices, coordination_index, _current_index,
          _previous_agents_in_cycle_indices, op, ret, raised, path, prev_path,
          calls, idle, origin, other, other_ret>>

----------------------------------------------------------------------------
(* Bounds *)

\* longest agent_order with a repeated identifier handed to a constructor or
\* to reinit; orders without repetition come in every length
MaxDupLen == 3

\* longest run of next() calls without a reinit, reset or reset of the position
MaxCalls == 8

----------------------------------------------------------------------------
(* Values *)

\* Python's None
None == "None"

\* the int 0 that AgentSelector.reinit stores in selected_agent; no string
\* identifier equals it
IntZero == "int(0)"

Ids == {"manager", "coordination", "workstation_0", "workstation_1"}

Classes == {"AgentSelector", "AgentSelector2", "AgentSelector3"}

Injective(s) == \A i, j \in 1..Len(s) : i # j => s[i] # s[j]

\* the agent_order arguments
Orders == {s \in UNION {[1..n -> Ids] : n \in 0..Cardinality(Ids)} :
              Injective(s) \/ Len(s) <= MaxDupLen}

\* AgentSelector takes agent_order: list[Any]; an identifier may be the int 0
Ids1 == Ids \cup {IntZero}

\* the agent_order arguments of AgentSelector
Orders1 == {s \in UNION {[1..n -> Ids1] : n \in 0..Cardinality(Ids)} :
               Injective(s) \/ Len(s) <= MaxDupLen}

\* the active_agents argument of AgentSelector2.next
ActiveSets == SUBSET Ids

\* the workstation_act argument of AgentSelector3.next: 0/1 flags
ActVectors == UNION {[1..n -> {0, 1}] : n \in 0..(Cardinality(Ids) - 1)}

NoIndex == 0 - 1

----------------------------------------------------------------------------
(* Python list operations *)

Range(s) == {s[i] : i \in 1..Len(s)}

\* s[i] with Python's negative indices; the callers keep i in range
At(s, i) == IF i < 0 THEN s[Len(s) + i + 1] ELSE s[i + 1]

\* x in s
Contains(s, x) == x \in Range(s)

\* s.index(x) when x is in s: the first position holding x
Index(s, x) == CHOOSE i \in 0..(Len(s) - 1) :
                   /\ s[i + 1] = x
                   /\ \A j \in 0..(i - 1) : s[j + 1] # x

\* str.startswith("workstation") over the identifiers of the model
StartsWithWorkstation(agent) == agent \in {"workstation_0", "workstation_1"}

RECURSIVE WorkstationScan(_, _)
\* [i for i, agent in enumerate(agent_order) if agent.startswith("workstation")]
\* from position i on
WorkstationScan(order, i) ==
    IF i >= Len(order) THEN <<>>
    ELSE IF StartsWithWorkstation(order[i + 1])
         THEN <<i>> \o WorkstationScan(order, i + 1)
         ELSE WorkstationScan(order, i + 1)

WorkstationIndices(order) == WorkstationScan(order, 0)

----------------------------------------------------------------------------
(* AgentSelector *)

\* the fields after reinit(order)
AgentSelector_reinit(order) ==
    [agent_order |-> order, _current_agent |-> 0, selected_agent |-> IntZero]

\* faulty variant: selects agent_order[_current_agent], not the element just passed
AgentSelector_next_NotPassed(s) ==
    LET cur == (s._current_agent + 1) % Len(s.agent_order)
    IN  [agent_order |-> s.agent_order,
         _current_agent |-> cur,
         selected_agent |-> At(s.agent_order, cur)]

\* faulty variant: the position wraps one step late
AgentSelector_next_WrapsLate(s) ==
    LET cur == (s._current_agent + 1) % (Len(s.agent_order) + 1)
    IN  [agent_order |-> s.agent_order,
         _current_agent |-> cur,
         selected_agent |-> At(s.agent_order, cur - 1)]

\* the fields after next() on an object with fields s; len(agent_order) > 0
AgentSelector_next(s) ==
    LET cur == (s._current_agent + 1) % Len(s.agent_order)
    IN  [agent_order |-> s.agent_order,
         _current_agent |-> cur,
         selected_agent |-> At(s.agent_order, cur - 1)]

\* faulty variant: advances without reinitializing first
AgentSelector_reset_NoReinit(s) == AgentSelector_next(s)

\* the fields after reset() on an object with fields s; len(agent_order) > 0
AgentSelector_reset(s) == AgentSelector_next(AgentSelector_reinit(s.agent_order))

\* faulty variant: compares with the first element
AgentSelector_is_last_First == selected_agent = At(agent_order, 0)

\* is_last() / is_first(); agent_order[-1] and agent_order[0] need a non-empty order
AgentSelector_is_last == selected_agent = At(agent_order, 0 - 1)

AgentSelector_is_first == selected_agent = At(agent_order, 0)

Self1 == [agent_order |-> agent_order, _current_agent |-> _current_agent,
          selected_agent |-> selected_agent]

Store1(s) ==
    /\ agent_order' = s.agent_order
    /\ _current_agent' = s._current_agent
    /\ selected_agent' = s.selected_agent

Unused23 ==
    UNCHANGED <<manager_index, workstation_indices, coordination_index,
                _current_index, _previous_agents_in_cycle_indices, idle>>

Reinit1 ==
    /\ cls = "AgentSelector"
    /\ raised = None
    /\ \E order \in Orders1 :
          /\ Store1(AgentSelector_reinit(order))
          /\ other' = AgentSelector_reinit(order)
    /\ other_ret' = None
    /\ origin' = "reinit"
    /\ op' = "reinit"
    /\ prev_path' = path
    /\ ret' = None
    /\ raised' = None
    /\ path' = "none"
    /\ calls' = 0
    /\ UNCHANGED cls
    /\ Unused23

Next1 ==
    /\ cls = "AgentSelector"
    /\ raised = None
    /\ calls < MaxCalls
    /\ op' = "next"
    /\ prev_path' = path
    /\ IF Len(agent_order) = 0
       THEN \* (self._current_agent + 1) % 0
            /\ raised' = "ZeroDivisionError"
            /\ ret' = None
            /\ UNCHANGED <<agent_order, _current_agent, selected_agent, calls, path,
                           other>>
            /\ other_ret' = None
       ELSE /\ Store1(AgentSelector_next(Self1))
            /\ ret' = selected_agent'
            /\ other' = AgentSelector_next(other)
            /\ other_ret' = other'.selected_agent
            /\ raised' = None
            /\ path' = "cycle"
            /\ calls' = calls + 1
    /\ UNCHANGED <<cls, origin>>
    /\ Unused23

Reset1 ==
    /\ cls = "AgentSelector"
    /\ raised = None
    /\ op' = "reset"
    /\ prev_path' = path
    /\ IF Len(agent_order) = 0
       THEN \* reinit went through, next() raised
            /\ Store1(AgentSelector_reinit(agent_order))
            /\ raised' = "ZeroDivisionError"
            /\ ret' = None
            /\ path' = "none"
            /\ calls' = 0
            /\ other' = AgentSelector_reinit(other.agent_order)
            /\ other_ret' = None
       ELSE /\ Store1(AgentSelector_reset(Self1))
            /\ ret' = selected_agent'
            /\ other' = AgentSelector_reset(other)
            /\ other_ret' = other'.selected_agent
            /\ raised' = None
            /\ path' = "cycle"
            /\ calls' = 1
    /\ UNCHANGED <<cls, origin>>
    /\ Unused23

Init1 ==
    /\ cls = "AgentSelector"
    /\ \E order \in Orders1 :
          /\ agent_order = order
          /\ _current_agent = 0
          /\ selected_agent = IntZero
          /\ other = AgentSelector_reinit(order)
    /\ manager_index = NoIndex
    /\ workstation_indices = <<>>
    /\ coordination_index = NoIndex
    /\ _current_index = 0
    /\ _previous_agents_in_cycle_indices = <<>>
    /\ op = "__init__"
    /\ prev_path = "none"
    /\ ret = None
    /\ raised = None
    /\ path = "none"
    /\ calls = 0
    /\ idle = 0
    /\ origin = "__init__"
    /\ other_ret = None

----------------------------------------------------------------------------
(* AgentSelector2 and AgentSelector3: the fields they share *)

Self23 == [agent_order |-> agent_order,
           manager_index |-> manager_index,
           workstation_indices |-> workstation_indices,
           coordination_index |-> coordination_index,
           _current_index |-> _current_index,
           selected_agent |-> selected_agent,
           _previous_agents_in_cycle_indices |-> _previous_agents_in_cycle_indices]

\* an object none of whose attributes has been assigned yet
Blank23 == [agent_order |-> <<>>,
            manager_index |-> NoIndex,
            workstation_indices |-> <<>>,
            coordination_index |-> NoIndex,
            _current_index |-> 0,
            selected_agent |-> None,
            _previous_agents_in_cycle_indices |-> <<>>]

Store23(s) ==
    /\ agent_order' = s.agent_order
    /\ manager_index' = s.manager_index
    /\ workstation_indices' = s.workstation_indices
    /\ coordination_index' = s.coordination_index
    /\ _current_index' = s._current_index
    /\ selected_agent' = s.selected_agent
    /\ _previous_agents_in_cycle_indices' = s._previous_agents_in_cycle_indices

----------------------------------------------------------------------------
(* AgentSelector2 *)

\* faulty variant: a missing "coordination" is not looked up and does not raise
AgentSelector2_reinit_NoCoordinationLookup(s, order) ==
    IF ~Contains(order, "manager")
    THEN [self |-> [s EXCEPT !.agent_order = order], raised |-> "ValueError"]
    ELSE [self |-> [s EXCEPT !.agent_order = order,
                             !.manager_index = Index(order, "manager"),
                             !.workstation_indices = WorkstationIndices(order),
                             !.coordination_index =
                                 IF Contains(order, "coordination")
                                 THEN Index(order, "coordination")
                                 ELSE NoIndex,
                             !._current_index = 0,
                             !.selected_agent = None],
          raised |-> None]

\* reinit(agent_order) on an object with fields s: the fields afterwards and
\* the exception of list.index, if any.  The assignments before the raising
\* statement stay.
AgentSelector2_reinit(s, order) ==
    IF ~Contains(order, "manager")
    THEN [self |-> [s EXCEPT !.agent_order = order], raised |-> "ValueError"]
    ELSE IF ~Contains(order, "coordination")
    THEN [self |-> [s EXCEPT !.agent_order = order,
                             !.manager_index = Index(order, "manager"),
                             !.workstation_indices = WorkstationIndices(order)],
          raised |-> "ValueError"]
    ELSE [self |-> [s EXCEPT !.agent_order = order,
                             !.manager_index = Index(order, "manager"),
                             !.workstation_indices = WorkstationIndices(order),
                             !.coordination_index = Index(order, "coordination"),
                             !._current_index = 0,
                             !.selected_agent = None],
          raised |-> None]

\* __init__ runs the same statements on a new object
AgentSelector2_init(order) == AgentSelector2_reinit(Blank23, order)

\* reset(): the fields afterwards; it returns agent_order[manager_index]
AgentSelector2_reset(s) == [s EXCEPT !._current_index = 0]

\* faulty variant: the manager branch is taken whatever active_agents holds
AgentSelector2_manager_branch_Unchecked(manager_act, active_agents) ==
    manager_act

\* the branch of next(): manager_act and "manager" in active_agents
AgentSelector2_manager_branch(manager_act, active_agents) ==
    manager_act /\ "manager" \in active_agents

\* faulty variant: _current_index is wrapped to the cycle length
AgentSelector2_next_Wrapped(s, manager_act, coordination_act, active_agents) ==
    IF AgentSelector2_manager_branch(manager_act, active_agents)
    THEN [s EXCEPT !.selected_agent = At(s.agent_order, s.manager_index),
                   !._current_index = 0]
    ELSE LET total_agents_in_cycle == Len(s.workstation_indices) + 1
             cycle_index == s._current_index % total_agents_in_cycle
         IN  [s EXCEPT !.selected_agent =
                           IF cycle_index < Len(s.workstation_indices)
                           THEN At(s.agent_order, At(s.workstation_indices, cycle_index))
                           ELSE At(s.agent_order, s.coordination_index),
                       !._current_index = (s._current_index + 1) % total_agents_in_cycle]

\* faulty variant: coordination_act selects the coordination agent at once
AgentSelector2_next_CoordinationActs(s, manager_act, coordination_act, active_agents) ==
    IF AgentSelector2_manager_branch(manager_act, active_agents)
    THEN [s EXCEPT !.selected_agent = At(s.agent_order, s.manager_index),
                   !._current_index = 0]
    ELSE LET total_agents_in_cycle == Len(s.workstation_indices) + 1
             cycle_index == s._current_index % total_agents_in_cycle
         IN  IF cycle_index < Len(s.workstation_indices) /\ ~coordination_act
             THEN [s EXCEPT !.selected_agent =
                                At(s.agent_order, At(s.workstation_indices, cycle_index)),
                            !._current_index = s._current_index + 1]
             ELSE [s EXCEPT !.selected_agent = At(s.agent_order, s.coordination_index),
                            !._current_index = s._current_index + 1]

\* next(manager_act, coordination_act, active_agents): the fields afterwards
AgentSelector2_next(s, manager_act, coordination_act, active_agents) ==
    IF AgentSelector2_manager_branch(manager_act, active_agents)
    THEN [s EXCEPT !.selected_agent = At(s.agent_order, s.manager_index),
                   !._current_index = 0]
    ELSE LET total_agents_in_cycle == Len(s.workstation_indices) + 1
             cycle_index == s._current_index % total_agents_in_cycle
         IN  IF cycle_index < Len(s.workstation_indices)
             THEN [s EXCEPT !.selected_agent =
                                At(s.agent_order, At(s.workstation_indices, cycle_index)),
                            !._current_index = s._current_index + 1]
             ELSE [s EXCEPT !.selected_agent = At(s.agent_order, s.coordination_index),
                            !._current_index = s._current_index + 1]

AgentSelector2_is_last == selected_agent = At(agent_order, coordination_index)

AgentSelector2_is_first == selected_agent = At(agent_order, manager_index)

Unused1 == UNCHANGED <<_current_agent>>

Reinit2 ==
    /\ cls = "AgentSelector2"
    /\ raised = None
    /\ \E order \in Orders :
          LET r == AgentSelector2_reinit(Self23, order)
          IN  /\ Store23(r.self)
              /\ raised' = r.raised
              /\ other' = AgentSelector2_init(order).self
    /\ other_ret' = None
    /\ origin' = "reinit"
    /\ op' = "reinit"
    /\ prev_path' = path
    /\ ret' = None
    /\ path' = "none"
    /\ calls' = 0
    /\ UNCHANGED <<cls, idle>>
    /\ Unused1

Reset2 ==
    /\ cls = "AgentSelector2"
    /\ raised = None
    /\ Store23(AgentSelector2_reset(Self23))
    /\ op' = "reset"
    /\ prev_path' = path
    /\ ret' = At(agent_order, manager_index)
    /\ raised' = None
    /\ path' = "none"
    /\ calls' = 0
    /\ other' = AgentSelector2_reset(other)
    /\ other_ret' = At(other.agent_order, other.manager_index)
    /\ UNCHANGED <<cls, idle, origin>>
    /\ Unused1

Next2(manager_act, coordination_act, active_agents) ==
    /\ cls = "AgentSelector2"
    /\ raised = None
    /\ \/ AgentSelector2_manager_branch(manager_act, active_agents)
       \/ _current_index < MaxCalls
    /\ Store23(AgentSelector2_next(Self23, manager_act, coordination_act, active_agents))
    /\ op' = "next"
    /\ prev_path' = path
    /\ ret' = selected_agent'
    /\ raised' = None
    /\ IF AgentSelector2_manager_branch(manager_act, active_agents)
       THEN path' = "manager" /\ calls' = 0
       ELSE path' = "cycle" /\ calls' = calls + 1
    /\ other' = AgentSelector2_next(other, manager_act, coordination_act, active_agents)
    /\ other_ret' = other'.selected_agent
    /\ UNCHANGED <<cls, idle, origin>>
    /\ Unused1

Call2 ==
    \E manager_act \in BOOLEAN, coordination_act \in BOOLEAN, active_agents \in ActiveSets :
        Next2(manager_act, coordination_act, active_agents)

Init2 ==
    /\ cls = "AgentSelector2"
    /\ \E order \in Orders :
          LET r == AgentSelector2_init(order)
          IN  /\ agent_order = r.self.agent_order
              /\ manager_index = r.self.manager_index
              /\ workstation_indices = r.self.workstation_indices
              /\ coordination_index = r.self.coordination_index
              /\ _current_index = r.self._current_index
              /\ selected_agent = r.self.selected_agent
              /\ _previous_agents_in_cycle_indices = <<>>
              /\ raised = r.raised
              /\ other = r.self
    /\ _current_agent = 0
    /\ op = "__init__"
    /\ prev_path = "none"
    /\ ret = None
    /\ path = "none"
    /\ calls = 0
    /\ idle = 0
    /\ origin = "__init__"
    /\ other_ret = None

----------------------------------------------------------------------------
(* AgentSelector3 *)

\* faulty variant: _previous_agents_in_cycle_indices survives reinit
AgentSelector3_reinit_KeepsPrevious(s, order) ==
    IF ~Contains(order, "manager")
    THEN [self |-> [s EXCEPT !.agent_order = order], raised |-> "ValueError"]
    ELSE IF ~Contains(order, "coordination")
    THEN [self |-> [s EXCEPT !.agent_order = order,
                             !.manager_index = Index(order, "manager"),
                             !.workstation_indices = WorkstationIndices(order)],
          raised |-> "ValueError"]
    ELSE [self |-> [s EXCEPT !.agent_order = order,
                             !.manager_index = Index(order, "manager"),
                             !.workstation_indices = WorkstationIndices(order),
                             !.coordination_index = Index(order, "coordination"),
                             !._current_index = 0,
                             !.selected_agent = None],
          raised |-> None]

\* reinit(agent_order): as AgentSelector2.reinit, and it empties
\* _previous_agents_in_cycle_indices last
AgentSelector3_reinit(s, order) ==
    IF ~Contains(order, "manager")
    THEN [self |-> [s EXCEPT !.agent_order = order], raised |-> "ValueError"]
    ELSE IF ~Contains(order, "coordination")
    THEN [self |-> [s EXCEPT !.agent_order = order,
                             !.manager_index = Index(order, "manager"),
                             !.workstation_indices = WorkstationIndices(order)],
          raised |-> "ValueError"]
    ELSE [self |-> [s EXCEPT !.agent_order = order,
                             !.manager_index = Index(order, "manager"),
                             !.workstation_indices = WorkstationIndices(order),
                             !.coordination_index = Index(order, "coordination"),
                             !._current_index = 0,
                             !.selected_agent = None,
                             !._previous_agents_in_cycle_indices = <<>>],
          raised |-> None]

AgentSelector3_init(order) == AgentSelector3_reinit(Blank23, order)

\* faulty variant: reset() keeps _previous_agents_in_cycle_indices
AgentSelector3_reset_KeepsPrevious(s) ==
    [s EXCEPT !._current_index = 0,
              !.selected_agent = At(s.agent_order, s.manager_index)]

\* reset(): the fields afterwards; it returns selected_agent
AgentSelector3_reset(s) ==
    [s EXCEPT !._current_index = 0,
              !.selected_agent = At(s.agent_order, s.manager_index),
              !._previous_agents_in_cycle_indices = <<>>]

RECURSIVE ActiveScan(_, _, _)
\* [idx for i, idx in enumerate(workstation_indices) if workstation_act[i] == 1]
\* from position i on
ActiveScan(indices, workstation_act, i) ==
    IF i >= Len(indices) THEN <<>>
    ELSE IF workstation_act[i + 1] = 1
         THEN <<indices[i + 1]>> \o ActiveScan(indices, workstation_act, i + 1)
         ELSE ActiveScan(indices, workstation_act, i + 1)

\* faulty variant: the activity flags are ignored
ActiveWorkstationIndices_All(s, workstation_act) == s.workstation_indices

\* active_workstation_indices
ActiveWorkstationIndices(s, workstation_act) ==
    ActiveScan(s.workstation_indices, workstation_act, 0)

\* faulty variant: the fallback cycle leaves the manager out
AgentsInCycleIndices_NoManager(s, workstation_act) ==
    LET active_workstation_indices == ActiveWorkstationIndices(s, workstation_act)
    IN  IF active_workstation_indices # <<>>
        THEN active_workstation_indices \o <<s.coordination_index>>
        ELSE s.workstation_indices \o <<s.coordination_index>>

\* faulty variant: the fallback cycle is the workstations alone
AgentsInCycleIndices_WorkstationsOnly(s, workstation_act) ==
    LET active_workstation_indices == ActiveWorkstationIndices(s, workstation_act)
    IN  IF active_workstation_indices # <<>>
        THEN active_workstation_indices \o <<s.coordination_index>>
        ELSE s.workstation_indices

\* agents_in_cycle_indices
AgentsInCycleIndices(s, workstation_act) ==
    LET active_workstation_indices == ActiveWorkstationIndices(s, workstation_act)
    IN  IF active_workstation_indices # <<>>
        THEN active_workstation_indices \o <<s.coordination_index>>
        ELSE s.workstation_indices \o <<s.coordination_index>> \o <<s.manager_index>>

\* workstation_act[i] for an i past the end of workstation_act
AgentSelector3_raises(s, manager_act, workstation_act) ==
    ~manager_act /\ Len(workstation_act) < Len(s.workstation_indices)

\* faulty variant: the selection is taken one place further in the cycle
AgentSelector3_cycle_OnePlaceOn(s, workstation_act, changed) ==
    LET agents_in_cycle_indices == AgentsInCycleIndices(s, workstation_act)
        current == IF changed THEN 0 ELSE s._current_index
        cycle_length == Len(agents_in_cycle_indices)
        cycle_index == (current + 1) % cycle_length
        selected_idx == At(agents_in_cycle_indices, cycle_index)
    IN  [s EXCEPT !._previous_agents_in_cycle_indices =
                      IF changed THEN agents_in_cycle_indices
                      ELSE s._previous_agents_in_cycle_indices,
                  !.selected_agent = At(s.agent_order, selected_idx),
                  !._current_index = current + 1]

\* faulty variant: selecting the manager in the cycle resets like manager_act
AgentSelector3_cycle_ManagerResets(s, workstation_act, changed) ==
    LET agents_in_cycle_indices == AgentsInCycleIndices(s, workstation_act)
        current == IF changed THEN 0 ELSE s._current_index
        cycle_length == Len(agents_in_cycle_indices)
        cycle_index == current % cycle_length
        selected_idx == At(agents_in_cycle_indices, cycle_index)
    IN  IF selected_idx = s.manager_index
        THEN [s EXCEPT !._previous_agents_in_cycle_indices = <<>>,
                       !.selected_agent = At(s.agent_order, selected_idx),
                       !._current_index = 0]
        ELSE [s EXCEPT !._previous_agents_in_cycle_indices =
                           IF changed THEN agents_in_cycle_indices
                           ELSE s._previous_agents_in_cycle_indices,
                       !.selected_agent = At(s.agent_order, selected_idx),
                       !._current_index = current + 1]

\* the non-manager branch of next() with the cycle change decided by changed
AgentSelector3_cycle(s, workstation_act, changed) ==
    LET agents_in_cycle_indices == AgentsInCycleIndices(s, workstation_act)
        current == IF changed THEN 0 ELSE s._current_index
        cycle_length == Len(agents_in_cycle_indices)
        cycle_index == current % cycle_length
        selected_idx == At(agents_in_cycle_indices, cycle_index)
    IN  [s EXCEPT !._previous_agents_in_cycle_indices =
                      IF changed THEN agents_in_cycle_indices
                      ELSE s._previous_agents_in_cycle_indices,
                  !.selected_agent = At(s.agent_order, selected_idx),
                  !._current_index = current + 1]

\* faulty variant: the manager branch keeps _previous_agents_in_cycle_indices
AgentSelector3_next_KeepsPrevious(s, manager_act, workstation_act) ==
    IF manager_act
    THEN [s EXCEPT !.selected_agent = At(s.agent_order, s.manager_index),
                   !._current_index = 0]
    ELSE LET agents_in_cycle_indices == AgentsInCycleIndices(s, workstation_act)
         IN  IF agents_in_cycle_indices = <<>>
             THEN [s EXCEPT !.selected_agent = None]
             ELSE AgentSelector3_cycle(s, workstation_act,
                      agents_in_cycle_indices # s._previous_agents_in_cycle_indices)

\* faulty variant: a cycle counts as changed only when its length changed
AgentSelector3_next_ComparesLength(s, manager_act, workstation_act) ==
    IF manager_act
    THEN [s EXCEPT !.selected_agent = At(s.agent_order, s.manager_index),
                   !._current_index = 0,
                   !._previous_agents_in_cycle_indices = <<>>]
    ELSE LET agents_in_cycle_indices == AgentsInCycleIndices(s, workstation_act)
         IN  IF agents_in_cycle_indices = <<>>
             THEN [s EXCEPT !.selected_agent = None]
             ELSE AgentSelector3_cycle(s, workstation_act,
                      Len(agents_in_cycle_indices) #
                          Len(s._previous_agents_in_cycle_indices))

\* next(manager_act, workstation_act): the fields afterwards, when it does not raise
AgentSelector3_next(s, manager_act, workstation_act) ==
    IF manager_act
    THEN [s EXCEPT !.selected_agent = At(s.agent_order, s.manager_index),
                   !._current_index = 0,
                   !._previous_agents_in_cycle_indices = <<>>]
    ELSE LET agents_in_cycle_indices == AgentsInCycleIndices(s, workstation_act)
         IN  IF agents_in_cycle_indices = <<>>
             THEN [s EXCEPT !.selected_agent = None]
             ELSE AgentSelector3_cycle(s, workstation_act,
                      agents_in_cycle_indices # s._previous_agents_in_cycle_indices)

AgentSelector3_is_last == selected_agent = "coordination"

AgentSelector3_is_first == selected_agent = "manager"

\* a vector with a flag for every workstation of the object and every flag 0
AllFalse(workstation_act) ==
    /\ Len(workstation_act) >= Len(workstation_indices)
    /\ \A i \in 1..Len(workstation_act) : workstation_act[i] = 0

Reinit3 ==
    /\ cls = "AgentSelector3"
    /\ raised = None
    /\ \E order \in Orders :
          LET r == AgentSelector3_reinit(Self23, order)
          IN  /\ Store23(r.self)
              /\ raised' = r.raised
              /\ other' = AgentSelector3_init(order).self
    /\ other_ret' = None
    /\ origin' = "reinit"
    /\ op' = "reinit"
    /\ prev_path' = path
    /\ ret' = None
    /\ path' = "none"
    /\ calls' = 0
    /\ idle' = 0
    /\ UNCHANGED cls
    /\ Unused1

Reset3 ==
    /\ cls = "AgentSelector3"
    /\ raised = None
    /\ Store23(AgentSelector3_reset(Self23))
    /\ op' = "reset"
    /\ prev_path' = path
    /\ ret' = selected_agent'
    /\ raised' = None
    /\ path' = "none"
    /\ calls' = 0
    /\ idle' = 0
    /\ other' = AgentSelector3_reset(other)
    /\ other_ret' = other'.selected_agent
    /\ UNCHANGED <<cls, origin>>
    /\ Unused1

Next3(manager_act, workstation_act) ==
    /\ cls = "AgentSelector3"
    /\ raised = None
    /\ manager_act \/ _current_index < MaxCalls
    /\ op' = "next"
    /\ prev_path' = path
    /\ IF AgentSelector3_raises(Self23, manager_act, workstation_act)
       THEN /\ raised' = "IndexError"
            /\ ret' = None
            /\ UNCHANGED <<agent_order, manager_index, workstation_indices,
                           coordination_index, _current_index, selected_agent,
                           _previous_agents_in_cycle_indices, path, calls, idle>>
       ELSE /\ Store23(AgentSelector3_next(Self23, manager_act, workstation_act))
            /\ ret' = selected_agent'
            /\ raised' = None
            /\ path' = IF manager_act THEN "manager" ELSE "cycle"
            /\ calls' = 0
            /\ idle' = IF ~manager_act /\ AllFalse(workstation_act) /\ ret' # "manager"
                       THEN idle + 1
                       ELSE 0
    /\ IF AgentSelector3_raises(other, manager_act, workstation_act)
       THEN other' = other /\ other_ret' = None
       ELSE /\ other' = AgentSelector3_next(other, manager_act, workstation_act)
            /\ other_ret' = other'.selected_agent
    /\ UNCHANGED <<cls, origin>>
    /\ Unused1

Call3 ==
    \E manager_act \in BOOLEAN, workstation_act \in ActVectors :
        Next3(manager_act, workstation_act)

Init3 ==
    /\ cls = "AgentSelector3"
    /\ \E order \in Orders :
          LET r == AgentSelector3_init(order)
          IN  /\ agent_order = r.self.agent_order
              /\ manager_index = r.self.manager_index
              /\ workstation_indices = r.self.workstation_indices
              /\ coordination_index = r.self.coordination_index
              /\ _current_index = r.self._current_index
              /\ selected_agent = r.self.selected_agent
              /\ _previous_agents_in_cycle_indices =
                     r.self._previous_agents_in_cycle_indices
              /\ raised = r.raised
              /\ other = r.self
    /\ _current_agent = 0
    /\ op = "__init__"
    /\ prev_path = "none"
    /\ ret = None
    /\ path = "none"
    /\ calls = 0
    /\ idle = 0
    /\ origin = "__init__"
    /\ other_ret = None

----------------------------------------------------------------------------
(* __eq__ and the == operator *)

\* the results of __eq__
PyTrue == "True"

PyFalse == "False"

NotImplemented == "NotImplemented"

Bool(b) == IF b THEN PyTrue ELSE PyFalse

\* isinstance(obj, class_) for an object of class obj_cls: none of the three
\* classes derives from another
IsInstance(obj_cls, class_) == obj_cls = class_

\* AgentSelector.__eq__(self, other) with the fields a of self and b of other
AgentSelector_eq(a, b_cls, b) ==
    IF ~IsInstance(b_cls, "AgentSelector") THEN NotImplemented
    ELSE Bool(/\ a.agent_order = b.agent_order
              /\ a._current_agent = b._current_agent
              /\ a.selected_agent = b.selected_agent)

\* AgentSelector2.__eq__
AgentSelector2_eq(a, b_cls, b) ==
    IF ~IsInstance(b_cls, "AgentSelector2") THEN NotImplemented
    ELSE Bool(/\ a.agent_order = b.agent_order
              /\ a._current_index = b._current_index
              /\ a.selected_agent = b.selected_agent)

\* AgentSelector3.__eq__: its isinstance test names AgentSelector2
AgentSelector3_eq(a, b_cls, b) ==
    IF ~IsInstance(b_cls, "AgentSelector2") THEN NotImplemented
    ELSE Bool(/\ a.agent_order = b.agent_order
              /\ a._current_index = b._current_index
              /\ a.selected_agent = b.selected_agent)

\* a.__eq__(b) for an object a of class a_cls
Eq(a_cls, a, b_cls, b) ==
    CASE a_cls = "AgentSelector" -> AgentSelector_eq(a, b_cls, b)
      [] a_cls = "AgentSelector2" -> AgentSelector2_eq(a, b_cls, b)
      [] a_cls = "AgentSelector3" -> AgentSelector3_eq(a, b_cls, b)

\* a == b: a.__eq__(b), then the reflected b.__eq__(a), then identity
PyEquals(a_cls, a, b_cls, b, same_object) ==
    IF Eq(a_cls, a, b_cls, b) # NotImplemented THEN Eq(a_cls, a, b_cls, b)
    ELSE IF Eq(b_cls, b, a_cls, a) # NotImplemented THEN Eq(b_cls, b, a_cls, a)
    ELSE Bool(same_object)

\* the fields of the constructed object
Self == IF cls = "AgentSelector" THEN Self1 ELSE Self23

----------------------------------------------------------------------------
Init == Init1 \/ Init2 \/ Init3

Next == Reinit1 \/ Next1 \/ Reset1 \/ Reinit2 \/ Reset2 \/ Call2
           \/ Reinit3 \/ Reset3 \/ Call3

Spec == Init /\ [][Next]_vars

\* the environment calls next() once per step for as long as the object
\* answers: an AgentSelector3 that can be advanced is advanced again
LiveSpec == Spec /\ WF_vars(Call3)

----------------------------------------------------------------------------
(* The schedulers' contract, stated over positions of agent_order and       *)
(* independently of the fields the classes derive from it.                  *)

\* number of identifiers in the stored order
N == Len(agent_order)

\* 0-based positions of the workstation identifiers of order
WsPos(order) == {i \in 0..(Len(order) - 1) : StartsWithWorkstation(order[i + 1])}

\* 0-based position of the first occurrence of x in order
PosOf(order, x) ==
    CHOOSE i \in 0..(Len(order) - 1) :
        order[i + 1] = x /\ \A j \in 0..(Len(order) - 1) : order[j + 1] = x => i <= j

\* how many elements of S are at most i
Rank(S, i) == Cardinality({j \in S : j <= i})

RECURSIVE Ascending(_)
\* the elements of a set of numbers in increasing order
Ascending(S) ==
    IF S = {} THEN <<>>
    ELSE LET m == CHOOSE x \in S : \A y \in S : x <= y
         IN  <<m>> \o Ascending(S \ {m})

\* number of workstations of the stored order
W == Cardinality(WsPos(agent_order))

\* the hierarchical sub-cycle: workstations in declaration order, then coordination
SubCycle(order) == Ascending(WsPos(order)) \o <<PosOf(order, "coordination")>>

\* positions of the workstations whose aligned flag is 1
ActivePos(order, workstation_act) ==
    {i \in WsPos(order) : workstation_act[Rank(WsPos(order), i)] = 1}

\* the eligible cycle of the dynamic cycler for an activity vector
EligibleCycle(order, workstation_act) ==
    IF ActivePos(order, workstation_act) # {}
    THEN Ascending(ActivePos(order, workstation_act))
             \o <<PosOf(order, "coordination")>>
    ELSE Ascending(WsPos(order))
             \o <<PosOf(order, "coordination"), PosOf(order, "manager")>>

\* the identifier at 0-based position i of the stored order
IdAt(i) == agent_order[i + 1]

----------------------------------------------------------------------------
\* C1: in a run of k >= 1 consecutive next() calls on a fresh AgentSelector
\* (reset() counting as the first call) the k-th call returns
\* agent_order[(k-1) mod N]; so N calls return the identifiers in declared
\* order and call N+1 returns the first again.
C1_RoundRobin ==
    (cls = "AgentSelector" /\ raised = None /\ calls >= 1)
        => /\ N >= 1
           /\ ret = IdAt((calls - 1) % N)
           /\ selected_agent = ret

\* call N+1 of a run over three distinct identifiers returned the first again
C1_Witness ==
    /\ cls = "AgentSelector"
    /\ Injective(agent_order)
    /\ N = 3
    /\ calls = 4
    /\ ret = agent_order[1]

\* C2: AgentSelector.reset() returns the first identifier of the stored
\* order, leaves the order as it was, and leaves the position and selection a
\* fresh selector over that order has after one next().
C2_ResetRestarts ==
    [][(cls = "AgentSelector" /\ op' = "reset" /\ raised' = None)
          => /\ ret' = agent_order[1]
             /\ agent_order' = agent_order
             /\ _current_agent' = 1 % N
             /\ selected_agent' = agent_order[1]]_vars

\* a reset() on an order of several identifiers
C2_Witness ==
    /\ cls = "AgentSelector"
    /\ op = "reset"
    /\ raised = None
    /\ N >= 2
    /\ ret = agent_order[1]
    /\ _current_agent = 1

\* is_first() of the constructed object
IsFirst ==
    CASE cls = "AgentSelector" -> AgentSelector_is_first
      [] cls = "AgentSelector2" -> AgentSelector2_is_first
      [] cls = "AgentSelector3" -> AgentSelector3_is_first

\* C3: in each of the three classes is_first() is true right after reset()
\* returned.
C3_FirstAfterReset ==
    (op = "reset" /\ raised = None) => IsFirst

\* C4: AgentSelector over unique identifiers: after a next() or reset(),
\* is_last() holds iff the call returned the last element (the call was
\* number 0 mod N of its run), is_first() iff it returned the first (call
\* number 1 mod N); for N > 1 they never hold together.
C4_FirstLast ==
    (cls = "AgentSelector" /\ raised = None /\ op \in {"next", "reset"}
       /\ Injective(agent_order))
        => /\ AgentSelector_is_last <=> ret = agent_order[N]
           /\ AgentSelector_is_last <=> calls % N = 0
           /\ AgentSelector_is_first <=> ret = agent_order[1]
           /\ AgentSelector_is_first <=> calls % N = 1 % N
           /\ N > 1 => ~(AgentSelector_is_first /\ AgentSelector_is_last)

\* the call that returned the last of three distinct identifiers
C4_Witness ==
    /\ cls = "AgentSelector"
    /\ op = "next"
    /\ Injective(agent_order)
    /\ N = 3
    /\ calls = 3
    /\ AgentSelector_is_last
    /\ ~AgentSelector_is_first

\* C5: AgentSelector2.next with manager_act and "manager" in active_agents
\* returns the manager and sets _current_index to 0; any other call takes the
\* cycle branch (also manager_act with the manager not in active_agents),
\* and the cycle call right after a preemption selects the first element of
\* the sub-cycle.
C5_ManagerPreempts2 ==
    [][(cls = "AgentSelector2" /\ op' = "next")
          => \A manager_act \in BOOLEAN, coordination_act \in BOOLEAN,
                active_agents \in ActiveSets :
                Next2(manager_act, coordination_act, active_agents)
                    => IF manager_act /\ "manager" \in active_agents
                       THEN /\ ret' = "manager"
                            /\ selected_agent' = "manager"
                            /\ _current_index' = 0
                       ELSE /\ ret' = IdAt(SubCycle(agent_order)
                                               [(_current_index % (W + 1)) + 1])
                            /\ _current_index' = _current_index + 1
                            /\ (op = "next" /\ path = "manager")
                                   => ret' = IdAt(SubCycle(agent_order)[1])]_vars

\* a cycle call right after a preemption that interrupted a running cycle
C5_Witness ==
    /\ cls = "AgentSelector2"
    /\ op = "next"
    /\ path = "cycle"
    /\ prev_path = "manager"
    /\ W = 2
    /\ ret = IdAt(SubCycle(agent_order)[1])
    /\ _current_index = 1

\* C6: AgentSelector3.next with manager_act returns the manager whatever the
\* activity vector is, sets _current_index to 0 and empties
\* _previous_agents_in_cycle_indices; the next call without manager_act
\* selects the first element of the eligible cycle it computes.
C6_ManagerPreempts3 ==
    [][(cls = "AgentSelector3" /\ op' = "next" /\ raised' = None)
          => \A manager_act \in BOOLEAN, workstation_act \in ActVectors :
                Next3(manager_act, workstation_act)
                    => IF manager_act
                       THEN /\ ret' = "manager"
                            /\ selected_agent' = "manager"
                            /\ _current_index' = 0
                            /\ _previous_agents_in_cycle_indices' = <<>>
                       ELSE (op = "next" /\ path = "manager")
                               => /\ ret' = IdAt(EligibleCycle(agent_order,
                                                               workstation_act)[1])
                                  /\ _current_index' = 1]_vars

\* the fallback cycle engaged right after a preemption: workstation first
C6_Witness ==
    /\ cls = "AgentSelector3"
    /\ op = "next"
    /\ path = "cycle"
    /\ prev_path = "manager"
    /\ W = 2
    /\ Len(_previous_agents_in_cycle_indices) = W + 2
    /\ ret = IdAt(Ascending(WsPos(agent_order))[1])

C8_OnlyActive ==
    [][(cls = "AgentSelector3" /\ op' = "next" /\ raised' = None)
          => \A workstation_act \in ActVectors :
                (/\ Next3(FALSE, workstation_act)
                 /\ \E i \in 1..W : workstation_act[i] = 1)
                    => LET active == ActivePos(agent_order, workstation_act)
                           cycle == Ascending(active)
                                        \o <<PosOf(agent_order, "coordination")>>
                       IN  /\ _previous_agents_in_cycle_indices' = cycle
                           /\ \E j \in 1..Len(cycle) : ret' = IdAt(cycle[j])
                           /\ ret' = "coordination" \/ ret' \in {IdAt(i) : i \in active}
                           /\ ret' # "manager"
                           /\ Injective(agent_order)
                                 => ret' \notin {IdAt(i) :
                                                    i \in WsPos(agent_order) \ active}]_vars

\* the second of two workstations was selected while the first was inactive
C8_Witness ==
    /\ cls = "AgentSelector3"
    /\ op = "next"
    /\ path = "cycle"
    /\ W = 2
    /\ Len(_previous_agents_in_cycle_indices) = 2
    /\ ret = IdAt(Ascending(WsPos(agent_order))[2])
    /\ _current_index = 1

\* C9: AgentSelector3.next without manager_act: when the eligible cycle
\* equals _previous_agents_in_cycle_indices the position is not reset, the
\* selection is cycle[old position mod len] and the position grows by one;
\* when it differs the first element of the new cycle is selected, the new
\* cycle is recorded and the position is 1 afterwards.
C9_SetChange ==
    [][(cls = "AgentSelector3" /\ op' = "next" /\ raised' = None)
          => \A workstation_act \in ActVectors :
                Next3(FALSE, workstation_act)
                    => LET cycle == EligibleCycle(agent_order, workstation_act)
                       IN  IF cycle = _previous_agents_in_cycle_indices
                           THEN /\ _current_index' = _current_index + 1
                                /\ ret' = IdAt(cycle[(_current_index % Len(cycle)) + 1])
                                /\ _previous_agents_in_cycle_indices' = cycle
                           ELSE /\ _current_index' = 1
                                /\ ret' = IdAt(cycle[1])
                                /\ _previous_agents_in_cycle_indices' = cycle]_vars

\* a cycle kept over several calls: the position has passed its length
C9_Witness ==
    /\ cls = "AgentSelector3"
    /\ op = "next"
    /\ path = "cycle"
    /\ prev_path = "cycle"
    /\ Len(_previous_agents_in_cycle_indices) = 2
    /\ _current_index = 4
    /\ ret = "coordination"

\* C10: AgentSelector3: among W+2 consecutive calls without manager_act and
\* with an all-false activity vector one selects the manager: at most W+1
\* such calls in a row select something else.
C10_FallbackReachesManager ==
    cls = "AgentSelector3" => idle <= W + 1

\* the manager was selected by call W+2 of a fallback cycle
C10_Witness ==
    /\ cls = "AgentSelector3"
    /\ op = "next"
    /\ path = "cycle"
    /\ W = 2
    /\ _current_index = W + 2
    /\ ret = "manager"
    /\ idle = 0

\* C11: in each of the three classes, two objects constructed over the same
\* order and given the same reset() and next() calls compare equal (==) after
\* every call.
C11_TwinsEqual ==
    (raised = None /\ op \in {"reset", "next"})
        => PyEquals(cls, Self, cls, other, FALSE) = PyTrue

\* C12: in each of the three classes, after reinit(order) the object answers
\* every later sequence of reset() and next() calls as an object newly
\* constructed over that order does, and holds the same fields: nothing from
\* before the reinit is left.
C12_ReinitIsFresh ==
    (origin = "reinit" /\ raised = None)
        => /\ Self = other
           /\ op \in {"reset", "next"} => ret = other_ret

\* a dynamic cycler two cycle calls after a reinit
C12_Witness ==
    /\ cls = "AgentSelector3"
    /\ origin = "reinit"
    /\ op = "next"
    /\ path = "cycle"
    /\ prev_path = "cycle"
    /\ W = 2
    /\ _current_index = 2
    /\ ret = other_ret
    /\ ret = "coordination"

\* C13: AgentSelector: an empty order is rejected by the constructor or by
\* reinit itself, so no object holds an empty order and next() never fails
\* with a modulus by zero.
C13_EmptyOrderRejected ==
    cls = "AgentSelector"
        => /\ (raised = None => Len(agent_order) > 0)
           /\ raised # "ZeroDivisionError"

\* C14: AgentSelector2 and AgentSelector3: the constructor and reinit fail
\* with an error exactly for an order without "manager" or without
\* "coordination"; an order with both and no workstation is accepted, and
\* every cycle call of AgentSelector2 on it selects coordination.
C14_RolesRequired ==
    cls \in {"AgentSelector2", "AgentSelector3"}
        => /\ op \in {"__init__", "reinit"}
                => /\ raised \in {None, "ValueError"}
                   /\ raised = "ValueError"
                          <=> ~({"manager", "coordination"} \subseteq Range(agent_order))
           /\ (cls = "AgentSelector2" /\ raised = None /\ W = 0
                 /\ op = "next" /\ path = "cycle")
                => ret = "coordination"

\* the third cycle call in a row on an accepted order without workstations
C14_Witness ==
    /\ cls = "AgentSelector2"
    /\ raised = None
    /\ {"manager", "coordination"} \subseteq Range(agent_order)
    /\ W = 0
    /\ op = "next"
    /\ path = "cycle"
    /\ calls = 3
    /\ ret = "coordination"

\* a reinit refused for an order that lacks a role identifier
C14_Refused ==
    /\ cls \in {"AgentSelector2", "AgentSelector3"}
    /\ op = "reinit"
    /\ raised = "ValueError"
    /\ "manager" \in Range(agent_order)
    /\ "coordination" \notin Range(agent_order)

\* C15: AgentSelector3: every next() call whose workstation_act has a length
\* other than the number of workstation identifiers, shorter or longer, raises
\* an error instead of returning a selection.
C15_LengthChecked ==
    [][\A manager_act \in BOOLEAN, workstation_act \in ActVectors :
          (Next3(manager_act, workstation_act) /\ Len(workstation_act) # W)
              => raised' # None]_vars

\* C16: in all three classes an order with a repeated identifier is refused
\* by the constructor and by reinit, so no object that was constructed or
\* reinitialised without an error holds an order with a repetition.
C16_NoDuplicates ==
    /\ raised = None => Injective(agent_order)
    /\ (op \in {"__init__", "reinit"} /\ ~Injective(agent_order)) => raised # None

\* the position field of the object's class
Position == IF cls = "AgentSelector" THEN _current_agent ELSE _current_index

\* C17: in all three classes, right after the constructor or reinit(order)
\* went through for a non-empty order without repetition, the position is 0,
\* selected_agent equals no identifier of the order, is_first() and is_last()
\* are both false and, in AgentSelector3, the previous cycle is empty.
C17_FreshState ==
    (op \in {"__init__", "reinit"} /\ raised = None
       /\ agent_order # <<>> /\ Injective(agent_order))
        => /\ Position = 0
           /\ selected_agent \notin Range(agent_order)
           /\ cls = "AgentSelector"
                => ~AgentSelector_is_first /\ ~AgentSelector_is_last
           /\ cls = "AgentSelector2"
                => ~AgentSelector2_is_first /\ ~AgentSelector2_is_last
           /\ cls = "AgentSelector3"
                => /\ ~AgentSelector3_is_first /\ ~AgentSelector3_is_last
                   /\ _previous_agents_in_cycle_indices = <<>>

\* C18 as stated: in every class, after the constructor, reinit, reset and
\* next, the position is in [0, len), len being the length of the sequence
\* it indexes: the order (AgentSelector), the W+1 sub-cycle (AgentSelector2),
\* the cycle of the last non-manager call (AgentSelector3, where the position
\* is 0 while no such cycle is recorded).
C18_PositionInRange ==
    (raised = None /\ agent_order # <<>>)
        => /\ cls = "AgentSelector" => _current_agent \in 0..(N - 1)
           /\ cls = "AgentSelector2" => _current_index \in 0..W
           /\ cls = "AgentSelector3"
                => IF path = "cycle"
                   THEN _current_index
                            \in 0..(Len(_previous_agents_in_cycle_indices) - 1)
                   ELSE _current_index = 0

\* C18, amended: the position of AgentSelector is in [0, len(order)) for a
\* non-empty order. The position of AgentSelector2 and AgentSelector3 is not
\* wrapped: it is 0 after the constructor, reinit, reset and a manager
\* selection, and at least 1 after a non-manager next(); in AgentSelector2 it
\* is the number of non-manager calls since it was last 0, and in
\* AgentSelector3 the selected agent is the one at the wrapped position
\* (position - 1) mod len of the recorded cycle.
C18_PositionGrows ==
    raised = None
        => /\ (cls = "AgentSelector" /\ agent_order # <<>>)
                => _current_agent \in 0..(N - 1)
           /\ cls = "AgentSelector2"
                => /\ _current_index = calls
                   /\ path = "cycle" <=> _current_index >= 1
           /\ cls = "AgentSelector3"
                => /\ path = "cycle" <=> _current_index >= 1
                   /\ path = "cycle"
                        => /\ _previous_agents_in_cycle_indices # <<>>
                           /\ selected_agent =
                                  IdAt(At(_previous_agents_in_cycle_indices,
                                          (_current_index - 1)
                                              % Len(_previous_agents_in_cycle_indices)))

\* the position has grown past the length of the cycle it indexes
C18_Witness ==
    /\ cls = "AgentSelector3"
    /\ raised = None
    /\ op = "next"
    /\ path = "cycle"
    /\ Len(_previous_agents_in_cycle_indices) = 3
    /\ _current_index = 5
    /\ selected_agent = IdAt(At(_previous_agents_in_cycle_indices, 1))

\* the role indices agree with the order the object holds
RoleConsistent ==
    /\ manager_index \in 0..(N - 1)
    /\ IdAt(manager_index) = "manager"
    /\ coordination_index \in 0..(N - 1)
    /\ IdAt(coordination_index) = "coordination"
    /\ workstation_indices = Ascending(WsPos(agent_order))

\* C19: AgentSelector2 and AgentSelector3: after every constructed object's
\* reinit (also one that fails for a missing role identifier), reset and
\* next, manager_index is a position of "manager" in agent_order,
\* coordination_index one of "coordination", and workstation_indices are the
\* positions of the workstation identifiers in ascending order.
C19_RolesConsistent ==
    (cls \in {"AgentSelector2", "AgentSelector3"}
       /\ (op = "__init__" => raised = None))
        => RoleConsistent

\* reset() and next() never change agent_order or the role indices
C19_RolesFramed ==
    [][op' \in {"reset", "next"}
          => UNCHANGED <<agent_order, manager_index, workstation_indices,
                         coordination_index>>]_vars

\* C20: AgentSelector3: every next() call that does not raise returns an
\* identifier of agent_order, never None; the cycle computed by a
\* non-manager call is not empty and contains coordination_index, so the
\* branch for an empty cycle is never taken.
C20_CycleNeverEmpty ==
    (cls = "AgentSelector3" /\ op = "next" /\ raised = None)
        => /\ ret # None
           /\ ret \in Range(agent_order)
           /\ selected_agent = ret
           /\ path = "cycle"
                => /\ _previous_agents_in_cycle_indices # <<>>
                   /\ coordination_index
                          \in Range(_previous_agents_in_cycle_indices)

\* a non-manager call on an order without workstations and an empty vector
C20_Witness ==
    /\ cls = "AgentSelector3"
    /\ raised = None
    /\ agent_order = <<"manager", "coordination">>
    /\ workstation_indices = <<>>
    /\ op = "next"
    /\ path = "cycle"
    /\ _previous_agents_in_cycle_indices = <<1, 0>>
    /\ _current_index = 2
    /\ ret = "manager"

\* the last call was a non-manager next() of AgentSelector3 with at least one
\* active workstation: its cycle is the active workstations and coordination
ActiveCall ==
    /\ cls = "AgentSelector3"
    /\ raised = None
    /\ op = "next"
    /\ path = "cycle"
    /\ manager_index \notin Range(_previous_agents_in_cycle_indices)

\* C21 as stated: AgentSelector3: a run of consecutive next() calls without
\* manager_act and with at least one active workstation on every call, the
\* vector changing freely between the calls, does not go on for ever without
\* selecting coordination.
C21_CoordinationEventually ==
    ActiveCall ~> (~ActiveCall \/ ret = "coordination")

\* C21, amended: AgentSelector3: while consecutive next() calls without
\* manager_act compute the same cycle of k >= 1 active workstations and
\* coordination, call number c of the run (the position) selects the active
\* workstation number c mod (k+1) in declaration order, and coordination
\* exactly when c is a multiple of k+1.  A call that changes the cycle starts
\* a new run with its first active workstation, so coordination need not be
\* selected when the vector keeps changing.
C21_CoordinationClosesCycle ==
    ActiveCall
        => LET cycle == _previous_agents_in_cycle_indices
               k == Len(cycle) - 1
               c == _current_index
           IN  /\ k >= 1
               /\ c >= 1
               /\ \E active \in SUBSET WsPos(agent_order) :
                      /\ active # {}
                      /\ cycle = Ascending(active)
                                     \o <<PosOf(agent_order, "coordination")>>
               /\ ret = "coordination" <=> c % (k + 1) = 0
               /\ c % (k + 1) # 0 => ret = IdAt(cycle[c % (k + 1)])

\* coordination closes the cycle of two active workstations for the second time
C21_Witness ==
    /\ ActiveCall
    /\ Len(_previous_agents_in_cycle_indices) = 3
    /\ _current_index = 6
    /\ ret = "coordination"
    /\ prev_path = "cycle"

\* the previous cycle, the position and the selection of an AgentSelector3
\* agree with each other
PreviousConsistent ==
    (cls = "AgentSelector3" /\ raised = None)
        => LET cycle == _previous_agents_in_cycle_indices
           IN  /\ cycle = <<>> <=> _current_index = 0
               /\ cycle # <<>>
                    => /\ coordination_index \in Range(cycle)
                       /\ _current_index >= 1
                       /\ selected_agent =
                              IdAt(At(cycle, (_current_index - 1) % Len(cycle)))

\* C22: AgentSelector3, after any sequence of calls that went through: the
\* previous cycle is empty exactly when the position is 0; when it is not
\* empty it contains coordination_index, the position is at least 1 and
\* selected_agent is agent_order[cycle[(position - 1) mod len(cycle)]].  A
\* non-manager next() leaves in it the eligible cycle of its vector; reinit,
\* reset and a manager selection empty it.
C22_PreviousCycle ==
    /\ PreviousConsistent
    /\ [][/\ PreviousConsistent'
          /\ (cls = "AgentSelector3" /\ raised' = None)
                => /\ \A workstation_act \in ActVectors :
                          Next3(FALSE, workstation_act)
                              => _previous_agents_in_cycle_indices'
                                     = EligibleCycle(agent_order, workstation_act)
                   /\ (op' \in {"reinit", "reset"} \/ path' = "manager")
                          => _previous_agents_in_cycle_indices' = <<>>]_vars

\* the fallback cycle of two workstations is recorded and was passed once
C22_Witness ==
    /\ cls = "AgentSelector3"
    /\ raised = None
    /\ op = "next"
    /\ path = "cycle"
    /\ W = 2
    /\ _previous_agents_in_cycle_indices
           = EligibleCycle(agent_order, <<0, 0>>)
    /\ _current_index = 6
    /\ selected_agent = IdAt(At(_previous_agents_in_cycle_indices, 1))

\* the fallback cycle of the stored order: workstations, coordination, manager
FallbackCycle ==
    Ascending(WsPos(agent_order))
        \o <<PosOf(agent_order, "coordination"), PosOf(agent_order, "manager")>>

\* the last call was a non-manager next() of AgentSelector3 that selected the manager
ManagerByFallback ==
    /\ cls = "AgentSelector3"
    /\ raised = None
    /\ op = "next"
    /\ path = "cycle"
    /\ ret = "manager"

\* C23: AgentSelector3: a non-manager next() that selects the manager does
\* so as the last element of an unchanged fallback cycle: the position is
\* incremented, not reset, and the previous cycle is kept, so is_first() is
\* true with a position above 0; the next non-manager call with an all-false
\* vector selects the first element of the fallback cycle.  The manager is
\* selected with position 0 only after reset() or next() with manager_act.
C23_FallbackManager ==
    /\ [](ManagerByFallback
            => /\ AgentSelector3_is_first
               /\ _current_index > 0
               /\ _current_index % (W + 2) = 0
               /\ _previous_agents_in_cycle_indices = FallbackCycle)
    /\ []((cls = "AgentSelector3" /\ raised = None
             /\ selected_agent = "manager" /\ _current_index = 0)
            => op = "reset" \/ (op = "next" /\ path = "manager"))
    /\ [][/\ ManagerByFallback'
                => /\ _current_index' = _current_index + 1
                   /\ _previous_agents_in_cycle_indices'
                          = _previous_agents_in_cycle_indices
                   /\ _previous_agents_in_cycle_indices' = FallbackCycle
          /\ (ManagerByFallback /\ raised' = None)
                => \A workstation_act \in ActVectors :
                      (Next3(FALSE, workstation_act) /\ AllFalse(workstation_act))
                          => /\ ret' = IdAt(FallbackCycle[1])
                             /\ _current_index' = _current_index + 1
                             /\ _previous_agents_in_cycle_indices' = FallbackCycle]_vars

\* the call after the manager's turn in the fallback cycle: back to its first element
C23_Witness ==
    /\ cls = "AgentSelector3"
    /\ raised = None
    /\ op = "next"
    /\ path = "cycle"
    /\ prev_path = "cycle"
    /\ W = 2
    /\ _previous_agents_in_cycle_indices = FallbackCycle
    /\ _current_index = W + 3
    /\ idle = 1
    /\ ret = IdAt(FallbackCycle[1])

====
